---- MODULE Spec2Model ----
(***************************************************************************)
(* Model of thumbnails/files.py: ThumbnailManager (per-image cache of      *)
(* thumbnail handles), the module-level exists/delete functions, and the   *)
(* collaborators it calls (images.get/create/delete, the metadata and      *)
(* storage backends, fields.fetch_thumbnails), which are modelled from     *)
(* their documented contract.                                              *)
(***************************************************************************)
EXTENDS Integers, FiniteSets, TLC

\* ---------------------------------------------------------------- bounds

\* Number of blob names the storage backend can hand out (each generation
\* takes a fresh one, never reused).
MaxBlobs == 2

\* ------------------------------------------------------------- constants

\* The absent value: Python's None for a thumbnail, a descriptor or a path.
None == 0

\* conf.SIZES: "default" defines FALLBACK_IMAGE_URL, "large" does not.
SIZES == {"default", "large"}

\* A size name that is not in conf.SIZES.
UnknownSizes == {"lrge"}

AllSizes == SIZES \cup UnknownSizes

FALLBACK_IMAGE_URL(size) == IF size = "default" THEN "fallback.png" ELSE "none"

\* The falsy source: an image field without a file (name is None or '').
NoSource == "nosource"

Sources == {"a", "b"}

Managers == {"m1", "m2", "m3", "m0"}

\* ThumbnailManager.source_image, set once in __init__: m1 and m2 are two
\* managers of the same source image, m3 has its own, m0 has no file.
source_image(m) ==
    CASE m = "m1" -> "a"
      [] m = "m2" -> "a"
      [] m = "m3" -> "b"
      [] OTHER    -> NoSource

\* Metadata backends: the database backend (the default one) and Redis.
Backends == {"db", "redis"}

DefaultBackend == "db"

Paths == 1 .. MaxBlobs

VARIABLES
    metadata_backend,   \* [Managers -> Backends]: ThumbnailManager.metadata_backend
    thumbnails,         \* [Managers -> [AllSizes -> Paths \cup {None}]]: ThumbnailManager._thumbnails
    store,              \* [Backends -> [Sources \cup {NoSource} -> [AllSizes -> Paths \cup {None}]]]
    blobs,              \* set of paths present in the storage backend
    nextPath,           \* next fresh blob name
    pending,            \* [Managers -> the create call in flight: its size and the blob it saved]
    last                \* what the latest call did and returned

vars == <<metadata_backend, thumbnails, store, blobs, nextPath, pending, last>>


\* ------------------------------------------------- collaborators' contract

\* Every backend taken to support batch prefetch.
SupportsBatchAny(b) == TRUE

\* A metadata backend supports batch prefetch (Redis does, the database
\* backend does not).
SupportsBatch(b) == b = "redis"

\* images.get: one metadata query for the descriptor of (source, size);
\* None when there is none.
ImagesGet(b, src, size) == store[b][src][size]

\* metadata_backend.get_thumbnails(source): one query for all descriptors.
GetThumbnails(b, src) == store[b][src]

\* metadata.get_path: the stored path of (source, size) in the default
\* metadata backend; without a size, the path of the default size.
get_path(src, size) ==
    store[DefaultBackend][src][IF size = "nosize" THEN "default" ELSE size]

\* Ways images.create can end: an unknown size has no entry in conf.SIZES,
\* a missing source cannot be opened, and otherwise the transform may fail
\* (nothing written) or the metadata write may fail (blob already written).
GenOutcomes(src, size) ==
    IF size \notin SIZES THEN {"unknown_size"}
    ELSE IF src = NoSource THEN {"fail_transform"}
    ELSE {"ok", "fail_transform", "fail_record"}

GenError(out) == IF out = "unknown_size" THEN "UnknownSize" ELSE "GenError"

\* images.create: the blob is saved under a fresh name, then the descriptor
\* of (source, size) is written over the previous one.
ImagesCreate(b, src, size, out) ==
    IF out = "ok"
    THEN /\ nextPath <= MaxBlobs
         /\ blobs' = blobs \cup {nextPath}
         /\ store' = [store EXCEPT ![b][src][size] = nextPath]
         /\ nextPath' = nextPath + 1
    ELSE IF out = "fail_record"
    THEN /\ nextPath <= MaxBlobs
         /\ blobs' = blobs \cup {nextPath}
         /\ nextPath' = nextPath + 1
         /\ UNCHANGED store
    ELSE UNCHANGED <<blobs, store, nextPath>>

\* images.delete: removes the blob and the descriptor of (source, size);
\* silent when there is none.
ImagesDelete(b, src, size) ==
    /\ blobs' = blobs \ {store[b][src][size]}
    /\ store' = [store EXCEPT ![b][src][size] = None]

\* Thumbnail.url / FallbackImage.url: a FallbackImage gives its URL, a
\* Thumbnail without metadata raises ValueError.
ResolveUrl(kind, size) ==
    CASE kind = "FallbackImage" -> FALLBACK_IMAGE_URL(size)
      [] kind = "Empty"         -> "ValueError"
      [] kind = "Thumbnail"     -> "url"
      [] OTHER                  -> "none"

\* ------------------------------------------------------- the call record

KeysOf(cache) == {s \in AllSizes : cache[s] # None}

\* The record of a manager call: its arguments, what it returned or
\* raised, the metadata queries it made, and the manager's cache entry and
\* the descriptor as they were when it was called.
Call(op, m, size, create, result, path, queries, gen) ==
    [op |-> op, m |-> m, size |-> size, create |-> create,
     result |-> result, path |-> path,
     queries |-> queries, bulk |-> 0, gen |-> gen,
     cachedBefore |-> IF size \in AllSizes THEN thumbnails[m][size] ELSE None,
     descBefore |-> IF size \in AllSizes
                    THEN store[metadata_backend[m]][source_image(m)][size]
                    ELSE None,
     keysBefore |-> IF op = "all" THEN KeysOf(thumbnails[m]) ELSE {},
     images |-> {}, sizes |-> {}]

\* The record of a call that is not made on one manager.
FreeCall(op, size, result, path, bulk, images, sizes) ==
    [op |-> op, m |-> "-", size |-> size, create |-> FALSE,
     result |-> result, path |-> path,
     queries |-> 0, bulk |-> bulk, gen |-> "none",
     cachedBefore |-> None, descBefore |-> None, keysBefore |-> {},
     images |-> images, sizes |-> sizes]

\* ------------------------------------------------------------------ Init

\* ThumbnailManager.__init__, line 39: self._thumbnails = {}
EmptyDict == [s \in AllSizes |-> None]

\* No create call in flight.
Idle == [size |-> "-", path |-> None]

\* The stores are empty and every manager is freshly constructed.
Fresh ==
    /\ pending = [m \in Managers |-> Idle]
    /\ thumbnails = [m \in Managers |-> EmptyDict]
    /\ store = [b \in Backends |->
                 [src \in Sources \cup {NoSource} |-> [s \in AllSizes |-> None]]]
    /\ blobs = {}
    /\ nextPath = 1
    /\ last = FreeCall("init", "-", "None", None, 0, {}, {})

\* Every field uses the default metadata backend.
Init ==
    /\ metadata_backend = [m \in Managers |-> DefaultBackend]
    /\ Fresh

\* The images of m1 and m2 use the Redis backend, m3's the default one.
InitFetch ==
    /\ metadata_backend =
          [m \in Managers |-> IF m \in {"m1", "m2"} THEN "redis" ELSE DefaultBackend]
    /\ Fresh

\* ------------------------------------------------------ ThumbnailManager

\* A lookup that never finds the entry.
CacheLookupMiss(m, size) == None

\* get_thumbnail, line 70: thumbnail = self._thumbnails.get(size)
CacheLookup(m, size) == thumbnails[m][size]

\* The dict written whenever a blob was saved, also when create raised after
\* saving it.
CacheAfterCreateAlways(cache, size, out, path) ==
    IF out \in {"ok", "fail_record"} THEN [cache EXCEPT ![size] = path] ELSE cache

\* get_thumbnail, lines 76-79: self._thumbnails[size] = thumbnail runs only
\* when self.create(size) returned; an exception raised in it leaves the
\* dict as it was.
CacheAfterCreate(cache, size, out, path) ==
    IF out = "ok" THEN [cache EXCEPT ![size] = path] ELSE cache

\* create, lines 87-89: the thumbnail is returned and the dict is not
\* written.
CacheOnCreate(cache, size, path) == cache

\* Descriptors put in the dict only for sizes it does not hold yet.
AllKeepCached(cache, metadatas) ==
    [s \in AllSizes |-> IF cache[s] # None THEN cache[s] ELSE metadatas[s]]

\* The dict replaced by what the query returned.
AllReplace(cache, metadatas) == metadatas

\* all, lines 58-59: every descriptor found is put in the dict, over the
\* entry the dict had; the other entries stay.
AllMerge(cache, metadatas) ==
    [s \in AllSizes |-> IF metadatas[s] # None THEN metadatas[s] ELSE cache[s]]

\* ThumbnailManager.get_thumbnail(size, create=True); op tells whether it
\* was reached by attribute access or called directly.
get_thumbnail(m, size, create, op) ==
    LET b   == metadata_backend[m]
        src == source_image(m)
        thumbnail == CacheLookup(m, size)
    IN  IF thumbnail # None
        THEN /\ last' = Call(op, m, size, create, "Thumbnail", thumbnail, 0, "none")
             /\ UNCHANGED <<pending, metadata_backend, thumbnails, store, blobs, nextPath>>
        ELSE IF ImagesGet(b, src, size) # None
        THEN /\ thumbnails' = [thumbnails EXCEPT ![m][size] = ImagesGet(b, src, size)]
             /\ last' = Call(op, m, size, create, "Thumbnail",
                             ImagesGet(b, src, size), 1, "none")
             /\ UNCHANGED <<pending, metadata_backend, store, blobs, nextPath>>
        ELSE \E out \in GenOutcomes(src, size) :
             /\ ImagesCreate(b, src, size, out)
             /\ thumbnails' = [thumbnails EXCEPT
                                 ![m] = CacheAfterCreate(@, size, out, nextPath)]
             /\ last' = IF out = "ok"
                        THEN Call(op, m, size, create, "Thumbnail", nextPath, 1, "ok")
                        ELSE Call(op, m, size, create, GenError(out), None, 1, "failed")
             /\ UNCHANGED <<pending, metadata_backend>>

\* Attribute access that resolves every registered size through
\* get_thumbnail, with or without a source.
GetAttrAlwaysResolves(m, name) ==
    IF name \in SIZES
    THEN get_thumbnail(m, name, TRUE, "attr")
    ELSE /\ last' = Call("attr", m, name, TRUE, "AttributeError", None, 0, "none")
         /\ UNCHANGED <<pending, metadata_backend, thumbnails, store, blobs, nextPath>>

\* ThumbnailManager.__getattr__(name)
GetAttr(m, name) ==
    IF name \in SIZES
    THEN IF source_image(m) = NoSource
         THEN /\ last' = Call("attr", m, name, TRUE,
                              IF FALLBACK_IMAGE_URL(name) # "none"
                              THEN "FallbackImage" ELSE "Empty",
                              None, 0, "none")
              /\ UNCHANGED <<pending, metadata_backend, thumbnails, store, blobs, nextPath>>
         ELSE get_thumbnail(m, name, TRUE, "attr")
    ELSE /\ last' = Call("attr", m, name, TRUE, "AttributeError", None, 0, "none")
         /\ UNCHANGED <<pending, metadata_backend, thumbnails, store, blobs, nextPath>>

\* A direct call of get_thumbnail(size, create).
GetThumbnail(m, size, create) == get_thumbnail(m, size, create, "get")

\* ThumbnailManager.create(size)
Create(m, size) ==
    \E out \in GenOutcomes(source_image(m), size) :
        /\ ImagesCreate(metadata_backend[m], source_image(m), size, out)
        /\ thumbnails' = [thumbnails EXCEPT ![m] = CacheOnCreate(@, size, nextPath)]
        /\ last' = IF out = "ok"
                   THEN Call("create", m, size, TRUE, "Thumbnail", nextPath, 0, "ok")
                   ELSE Call("create", m, size, TRUE, GenError(out), None, 0, "failed")
        /\ UNCHANGED <<pending, metadata_backend>>

\* delete, line 97: what del(self._thumbnails[size]) ends with, given the
\* entry the dict has for the size.
DeleteResult(cached) == IF cached = None THEN "KeyError" ELSE "None"

\* A delete that leaves the dict as it is.
CacheAfterDeleteKeep(cache, size) == cache

\* delete, line 97: the dict after del(self._thumbnails[size]).
CacheAfterDelete(cache, size) == [cache EXCEPT ![size] = None]

\* ThumbnailManager.delete(size): images.delete, then del on the dict,
\* which raises KeyError when the size is not a key of it.
Delete(m, size) ==
    /\ ImagesDelete(metadata_backend[m], source_image(m), size)
    /\ thumbnails' = [thumbnails EXCEPT ![m] = CacheAfterDelete(@, size)]
    /\ last' = Call("delete", m, size, TRUE, DeleteResult(thumbnails[m][size]),
                    None, 0, "none")
    /\ UNCHANGED <<pending, metadata_backend, nextPath>>

\* ThumbnailManager.all()
All(m) ==
    LET metadatas == GetThumbnails(metadata_backend[m], source_image(m))
        merged    == AllMerge(thumbnails[m], metadatas)
    IN  /\ thumbnails' = [thumbnails EXCEPT ![m] = merged]
        /\ last' = Call("all", m, "-", TRUE, "Mapping", None, 1, "none")
        /\ UNCHANGED <<pending, metadata_backend, store, blobs, nextPath>>

\* --------------------------------------------------- module-level functions

\* exists(source_name, size=None)
Exists(src, size) ==
    LET path == get_path(src, size)
    IN  /\ last' = FreeCall("exists", size,
                            IF path # None /\ path \in blobs THEN "True" ELSE "False",
                            path, 0, {}, {})
        /\ UNCHANGED <<pending, metadata_backend, thumbnails, store, blobs, nextPath>>

\* delete(source_name, size=None): only the storage backend is told.
DeleteFile(src, size) ==
    LET path == get_path(src, size)
    IN  /\ blobs' = blobs \ {path}
        /\ last' = FreeCall("delete_file", size, "None", path, 0, {}, {})
        /\ UNCHANGED <<pending, metadata_backend, thumbnails, store, nextPath>>

\* ------------------------------------------------------- fetch_thumbnails

\* The sizes a fetch is asked for: every size when none is given.
FetchSizes == {AllSizes} \cup (SUBSET SIZES \ {{}})

\* Every descriptor returned, requested or not.
FetchUnfiltered(metadatas, sizes) == metadatas

\* fetch_thumbnails: of the descriptors the bulk query returned for an image,
\* those of the requested sizes.
FetchFilter(metadatas, sizes) ==
    [s \in AllSizes |-> IF s \in sizes THEN metadatas[s] ELSE None]

\* fields.fetch_thumbnails(images, sizes=None): one bulk query for the
\* images' backend, whose descriptors are put in each image's dict as all()
\* does, for the requested sizes only; NotImplementedError when a backend
\* has no batch support.
Fetch(images, sizes) ==
    IF \E m \in images : ~SupportsBatch(metadata_backend[m])
    THEN /\ last' = FreeCall("fetch", "-", "NotImplementedError", None, 0, images, sizes)
         /\ UNCHANGED <<pending, metadata_backend, thumbnails, store, blobs, nextPath>>
    ELSE /\ thumbnails' =
              [m \in Managers |->
                 IF m \in images
                 THEN AllMerge(thumbnails[m],
                        FetchFilter(GetThumbnails(metadata_backend[m], source_image(m)),
                                    sizes))
                 ELSE thumbnails[m]]
         /\ last' = FreeCall("fetch", "-", "None", None,
                             Cardinality({metadata_backend[m] : m \in images}),
                             images, sizes)
         /\ UNCHANGED <<pending, metadata_backend, store, blobs, nextPath>>

\* ------------------------------------------------------------------ Next

\* One image with two managers and an image field without a file; the
\* managers and the module-level functions are called in any order.
Callers == {"m1", "m2", "m0"}

Bound(ms) == {m \in ms : source_image(m) # NoSource}

Next ==
    \/ \E m \in Callers, name \in AllSizes : GetAttr(m, name)
    \/ \E m \in Callers, size \in AllSizes, create \in BOOLEAN :
          GetThumbnail(m, size, create)
    \/ \E m \in Callers, size \in SIZES : Create(m, size)
    \/ \E m \in Bound(Callers), size \in SIZES : Delete(m, size)
    \/ \E m \in Bound(Callers) : All(m)
    \/ \E size \in SIZES \cup {"nosize"} : Exists("a", size)
    \/ \E size \in SIZES \cup {"nosize"} : DeleteFile("a", size)

Spec == Init /\ [][Next]_vars

\* Three images are resolved, regenerated, deleted and prefetched in any
\* order.
Images == {"m1", "m2", "m3"}

NextFetch ==
    \/ \E m \in Images, size \in SIZES : GetThumbnail(m, size, TRUE)
    \/ \E m \in Images, size \in SIZES : Create(m, size)
    \/ \E m \in Images, size \in SIZES : Delete(m, size)
    \/ \E images \in SUBSET Images \ {{}}, sizes \in FetchSizes :
          Fetch(images, sizes)

SpecFetch == InitFetch /\ [][NextFetch]_vars

\* ------------------------------------------- create calls that overlap

\* A name that is not made unique: the name of a blob already saved, when
\* there is one.
FixedName == IF blobs = {} THEN nextPath ELSE CHOOSE p \in blobs : TRUE

\* The name storage.save gives the blob: never one that was given before.
FreshName == nextPath

\* ThumbnailManager.create(size), up to the point where images.create has
\* saved the blob and has not yet written the descriptor; a transform that
\* fails ends the call here.
CreateSave(m, size) ==
    /\ pending[m] = Idle
    /\ \E out \in GenOutcomes(source_image(m), size) \ {"fail_record"} :
          IF out = "ok"
          THEN /\ nextPath <= MaxBlobs
               /\ blobs' = blobs \cup {FreshName}
               /\ nextPath' = nextPath + 1
               /\ pending' = [pending EXCEPT ![m] = [size |-> size, path |-> FreshName]]
               /\ UNCHANGED <<metadata_backend, thumbnails, store, last>>
          ELSE /\ last' = Call("create", m, size, TRUE, GenError(out), None, 0, "failed")
               /\ UNCHANGED <<metadata_backend, thumbnails, store, blobs, nextPath, pending>>

\* The rest of that create call: the descriptor is written over the one
\* the store has (or the write fails), and create returns the thumbnail
\* without writing the dict.
CreateRecord(m, ok) ==
    /\ pending[m] # Idle
    /\ store' = IF ok
                THEN [store EXCEPT ![metadata_backend[m]][source_image(m)][pending[m].size]
                                      = pending[m].path]
                ELSE store
    /\ thumbnails' = [thumbnails EXCEPT
                        ![m] = CacheOnCreate(@, pending[m].size, pending[m].path)]
    /\ pending' = [pending EXCEPT ![m] = Idle]
    /\ last' = [(IF ok
                 THEN Call("create", m, pending[m].size, TRUE, "Thumbnail",
                           pending[m].path, 0, "ok")
                 ELSE Call("create", m, pending[m].size, TRUE, "GenError", None, 0, "failed"))
                EXCEPT !.images = {o \in Managers : o # m /\ pending[o] # Idle}]
    /\ UNCHANGED <<metadata_backend, blobs, nextPath>>

\* Two managers of one image whose create calls may overlap, and lookups
\* and deletions between them.
Creators == {"m1", "m2"}

NextConc ==
    \/ \E m \in Creators, size \in SIZES : CreateSave(m, size)
    \/ \E m \in Creators, ok \in BOOLEAN : CreateRecord(m, ok)
    \/ \E m \in Creators, size \in SIZES : pending[m] = Idle /\ GetThumbnail(m, size, TRUE)
    \/ \E m \in Creators, size \in SIZES : pending[m] = Idle /\ Delete(m, size)

SpecConc == Init /\ [][NextConc]_vars

\* ----------------------------------------------------- a single manager

\* One manager is the only one that resolves, regenerates and deletes the
\* thumbnails of its image; the module-level functions are called too.
NextSingle ==
    \/ \E name \in AllSizes : GetAttr("m1", name)
    \/ \E size \in AllSizes, create \in BOOLEAN : GetThumbnail("m1", size, create)
    \/ \E size \in SIZES : Create("m1", size)
    \/ \E size \in SIZES : Delete("m1", size)
    \/ All("m1")
    \/ \E size \in SIZES \cup {"nosize"} : Exists("a", size)
    \/ \E size \in SIZES \cup {"nosize"} : DeleteFile("a", size)

SpecSingle == Init /\ [][NextSingle]_vars

\* ------------------------------------------------------------ properties

\* The sizes with a persisted descriptor for manager m's source.
Persisted(m) ==
    {s \in AllSizes : store[metadata_backend[m]][source_image(m)][s] # None}

\* What exists(source, size) returns in the current state.
ExistsNow(src, size) ==
    get_path(src, size) # None /\ get_path(src, size) \in blobs

IsGet(c) == c.op \in {"get", "attr"}

\* C1: a get(S) that follows a successful create(S) on the same manager,
\* with no call in between, returns the thumbnail that create produced and
\* makes no metadata query and no generation.
C1_GetAfterCreateIsCacheHit ==
    [][(/\ last.op = "create" /\ last.result = "Thumbnail"
        /\ IsGet(last') /\ last'.m = last.m /\ last'.size = last.size)
       => (/\ last'.result = "Thumbnail" /\ last'.path = last.path
           /\ last'.queries = 0 /\ last'.gen = "none")]_vars

\* C2: right after create(S) returns, the manager's cache entry for S is
\* the thumbnail just generated.
C2_CreateOverwritesCache ==
    (last.op = "create" /\ last.result = "Thumbnail")
        => thumbnails[last.m][last.size] = last.path

\* C3: delete(S) with a descriptor persisted for (source, S) returns
\* normally, cached or not, and leaves no descriptor, no blob, no cache
\* entry, and exists(source, S) false.
C3_DeleteOfPersistedReturns ==
    (last.op = "delete" /\ last.descBefore # None)
        => /\ last.result = "None"
           /\ last.size \notin Persisted(last.m)
           /\ last.descBefore \notin blobs
           /\ thumbnails[last.m][last.size] = None
           /\ ~ExistsNow(source_image(last.m), last.size)

\* C4: get(S, create=false) on a bound manager with S neither cached nor
\* persisted returns an absent result and generates nothing.
C4_GetWithoutCreateGeneratesNothing ==
    (/\ last.op = "get" /\ ~last.create
     /\ source_image(last.m) # NoSource /\ last.size \in SIZES
     /\ last.cachedBefore = None /\ last.descBefore = None)
        => /\ last.result = "Absent"
           /\ last.gen = "none"
           /\ thumbnails[last.m][last.size] = None
           /\ last.size \notin Persisted(last.m)

\* C5 as stated: the mapping all() returns has exactly the persisted sizes
\* of the source as keys.
C5_AllKeysArePersistedSizes ==
    last.op = "all" => KeysOf(thumbnails[last.m]) = Persisted(last.m)

\* C5 as amended: the keys of the mapping all() returns are the sizes the
\* cache held before the call together with the persisted sizes of the
\* source (so exactly the persisted ones when every cached size still has
\* its descriptor).
C5_AllKeysAreCachedOrPersisted ==
    last.op = "all" =>
        KeysOf(thumbnails[last.m]) = last.keysBefore \cup Persisted(last.m)

\* all() called on a cache holding a size whose descriptor another manager
\* deleted, while another size is persisted.
C5_StaleKeyWitness ==
    /\ last.op = "all"
    /\ last.keysBefore \ Persisted(last.m) # {}
    /\ Persisted(last.m) \ last.keysBefore # {}

\* C6: resolving a size that is not in conf.SIZES, by attribute or by
\* get_thumbnail, fails as an unknown size without a metadata query, a
\* generation or a cache change.
C6_UnknownSizeRejectedWithoutQuery ==
    (IsGet(last) /\ last.size \notin SIZES)
        => /\ last.result \in {"AttributeError", "UnknownSize"}
           /\ last.queries = 0
           /\ last.gen = "none"
           /\ thumbnails[last.m][last.size] = last.cachedBefore

\* C7: without a source, attribute access and get_thumbnail both give a
\* FallbackImage with the configured URL for a size that has one, and an
\* empty Thumbnail whose URL raises for a size that has none.
C7_NoSourceGivesFallbackOrEmpty ==
    (IsGet(last) /\ source_image(last.m) = NoSource /\ last.size \in SIZES)
        => IF FALLBACK_IMAGE_URL(last.size) # "none"
           THEN /\ last.result = "FallbackImage"
                /\ ResolveUrl(last.result, last.size) = FALLBACK_IMAGE_URL(last.size)
           ELSE /\ last.result = "Empty"
                /\ ResolveUrl(last.result, last.size) = "ValueError"

\* C8: when generation fails in get(S) or create(S) the call raises and the
\* manager's cache entry for S is what it was before the call (none, for
\* get).
C8_FailedGenerationLeavesCache ==
    last.gen = "failed"
        => /\ last.result \in {"GenError", "UnknownSize"}
           /\ thumbnails[last.m][last.size] = last.cachedBefore
           /\ (IsGet(last) => thumbnails[last.m][last.size] = None)

\* get(S) of a registered size on a bound manager failed after the blob
\* was saved: the blob is there and no descriptor names it.
C8_FailedGetWitness ==
    /\ last.op = "get" /\ last.result = "GenError"
    /\ source_image(last.m) # NoSource
    /\ \E p \in blobs : \A s \in SIZES : p # get_path("a", s)

C10_FetchUnsupportedLeavesCaches ==
    [][(last'.op = "fetch" /\ \E m \in last'.images : metadata_backend[m] = "db")
       => (/\ last'.result = "NotImplementedError"
           /\ last'.queries = 0 /\ last'.bulk = 0
           /\ thumbnails' = thumbnails /\ store' = store /\ blobs' = blobs)]_vars

\* A fetch over a Redis image with a cached size and the database image
\* has raised.
C10_UnsupportedWitness ==
    /\ last.op = "fetch" /\ last.result = "NotImplementedError"
    /\ \E m \in last.images : metadata_backend[m] = "redis" /\ Persisted(m) # {}
    /\ \E m \in last.images : metadata_backend[m] = "db" /\ Persisted(m) # {}

\* C11: a fetch with an explicit set of sizes over images whose caches are
\* empty leaves in each image's cache exactly the requested sizes that have
\* a descriptor, each with the descriptor's path (the one get returns), and
\* nothing for a size that was not requested.
C11_FetchCachesRequestedPersisted ==
    [][(/\ last'.op = "fetch" /\ last'.result = "None" /\ last'.sizes # AllSizes
        /\ \A m \in last'.images : KeysOf(thumbnails[m]) = {})
       => \A m \in last'.images :
             /\ KeysOf(thumbnails'[m]) = last'.sizes \cap Persisted(m)
             /\ \A s \in KeysOf(thumbnails'[m]) :
                   thumbnails'[m][s] = ImagesGet(metadata_backend[m], source_image(m), s)]_vars

\* A fetch of "large" alone has filled an empty cache of an image that has
\* descriptors for both sizes: "large" is cached, "default" is not.
C11_UnrequestedWitness ==
    /\ last.op = "fetch" /\ last.result = "None" /\ last.sizes = {"large"}
    /\ \E m \in last.images :
          /\ Persisted(m) = SIZES
          /\ KeysOf(thumbnails[m]) = {"large"}

\* C12: each of two overlapping create(S) calls saves its blob under a
\* name no blob has; a create that returns has left its own path in the
\* one descriptor of (source, S), over the other's (the last write wins),
\* and the get(S) that follows on a manager without S cached returns that
\* path, a blob in the store.
C12_OverlappingCreatesLastWriteWins ==
    [][/\ \A m \in Creators :
             (pending[m] = Idle /\ pending'[m] # Idle)
                => /\ pending'[m].path \notin blobs
                   /\ pending'[m].path \in blobs'
                   /\ \A o \in Creators \ {m} : pending'[o].path # pending'[m].path
       /\ (last'.op = "create" /\ last'.result = "Thumbnail")
             => /\ store'[metadata_backend[last'.m]][source_image(last'.m)][last'.size]
                      = last'.path
                /\ last'.path \in blobs'
       /\ (/\ last.op = "create" /\ last.result = "Thumbnail"
           /\ \A m \in Creators : pending[m] = Idle
           /\ last'.op = "get" /\ last'.size = last.size /\ last'.cachedBefore = None)
             => (last'.result = "Thumbnail" /\ last'.path = last.path)]_vars

\* A create(S) has returned while the other manager's create(S) was in
\* flight with its own blob saved: its descriptor write came first.
C12_OverlapWitness ==
    /\ last.op = "create" /\ last.result = "Thumbnail"
    /\ \E o \in last.images :
          /\ pending[o].size = last.size
          /\ pending[o].path \in blobs
          /\ pending[o].path # last.path

\* C13: with a size cached on the manager, attribute access to it, get of
\* it and all() make no metadata query.
C13_CachedManagerNeverQueries ==
    (\/ (IsGet(last) /\ last.cachedBefore # None)
     \/ (last.op = "all" /\ last.keysBefore # {}))
        => last.queries = 0

\* C14: delete(S) with no descriptor persisted for (source, S) ends the
\* way it does when S is not in the manager's cache, also when S is in it,
\* and leaves the stores and the cache entries of the other sizes alone.
C14_DeleteNotFoundOutcomeIsOne ==
    [][(last'.op = "delete" /\ last'.descBefore = None)
       => /\ last'.result = DeleteResult(None)
          /\ store' = store /\ blobs' = blobs
          /\ \A s \in AllSizes \ {last'.size} :
                thumbnails'[last'.m][s] = thumbnails[last'.m][s]]_vars

\* C15: all() generates nothing (stores unchanged), puts the descriptor of
\* every size its query returned in the cache, and leaves every other
\* cache entry, of this manager and of the others, as it was.
C15_AllOnlyMergesQueryResult ==
    [][last'.op = "all"
       => /\ store' = store /\ blobs' = blobs /\ nextPath' = nextPath
          /\ \A s \in AllSizes :
                thumbnails'[last'.m][s] =
                    IF s \in Persisted(last'.m)
                    THEN store[metadata_backend[last'.m]][source_image(last'.m)][s]
                    ELSE thumbnails[last'.m][s]
          /\ \A m \in Managers \ {last'.m} : thumbnails'[m] = thumbnails[m]]_vars

\* all() has returned on a manager that held a size whose descriptor is
\* gone, which is still cached, while the other size is neither persisted
\* nor cached and was not generated.
C15_MergeWitness ==
    /\ last.op = "all"
    /\ \E s \in last.keysBefore : s \notin Persisted(last.m) /\ thumbnails[last.m][s] # None
    /\ \E s \in SIZES :
          s \notin Persisted(last.m) /\ s \notin last.keysBefore /\ thumbnails[last.m][s] = None

\* C16: the cache of a freshly constructed manager is not the empty
\* mapping: it is a distinct 'never queried' value.
C16_FreshCacheIsNotEmptyMapping ==
    last.op = "init" => \A m \in Managers : thumbnails[m] # EmptyDict

\* C17: attribute access to a registered size on a manager without a
\* source returns a FallbackImage or an empty Thumbnail, makes no query and
\* no generation, and leaves every cache and both stores unchanged; that
\* manager's cache stays empty.
C17_NoSourceAttrChangesNothing ==
    [][(/\ last'.op = "attr" /\ source_image(last'.m) = NoSource
        /\ last'.size \in SIZES)
       => /\ last'.result =
                (IF FALLBACK_IMAGE_URL(last'.size) # "none"
                 THEN "FallbackImage" ELSE "Empty")
          /\ last'.path = None /\ last'.queries = 0 /\ last'.gen = "none"
          /\ thumbnails' = thumbnails /\ store' = store /\ blobs' = blobs
          /\ thumbnails'[last'.m] = EmptyDict]_vars

\* A second attribute access without a source has returned an empty
\* Thumbnail while a manager with a source holds a cached thumbnail.
C17_NoSourceAttrWitness ==
    /\ last.op = "attr" /\ source_image(last.m) = NoSource
    /\ last.result = "Empty"
    /\ \E m \in Bound(Callers) : KeysOf(thumbnails[m]) # {}

\* C18: every descriptor names a blob that is in the blob store, a get(S)
\* on a manager without S cached returns a handle to an existing blob, and
\* exists(source, S) is true exactly when (source, S) has a descriptor.
C18_DescriptorsNameExistingBlobs ==
    /\ \A b \in Backends, src \in Sources, s \in SIZES :
          store[b][src][s] # None => store[b][src][s] \in blobs
    /\ (last.op = "get" /\ last.cachedBefore = None /\ last.result = "Thumbnail")
          => last.path \in blobs
    /\ \A s \in SIZES : ExistsNow("a", s) <=> get_path("a", s) # None

\* C19: with one manager the only writer of its source, every size in the
\* manager's cache has a persisted descriptor.
C19_SingleWriterCacheIsPersisted ==
    KeysOf(thumbnails["m1"]) \subseteq Persisted("m1")

\* delete(S) has ended in KeyError on the single manager while another
\* size is cached.
C19_DeleteErrorWitness ==
    /\ last.op = "delete" /\ last.result = "KeyError" /\ last.descBefore # None
    /\ KeysOf(thumbnails["m1"]) # {}

====
